---- MODULE Spec2Model ----
(***************************************************************************)
(* Model of the generic Vector[T] of package vector (a dynamic array in    *)
(* the style of std::vector).  A Go slice is modelled as a backing array   *)
(* (a heap buffer whose length is the slice's cap) together with the       *)
(* slice's len; the Vector adds its own bookkeeping fields size and        *)
(* capacity.  Every operation is an operator from the vector's fields to   *)
(* its new fields and its result; a run-time panic (index or slice bounds  *)
(* out of range, makeslice: cap out of range) is the result "panic".       *)
(* New builds the vector A; B is a second vector with its own backing      *)
(* array, the only other owner of a buffer there can be.                   *)
(***************************************************************************)
EXTENDS Integers, Sequences, FiniteSets, TLC

\* Bounds of the model.
MaxCap == 4        \* largest backing array the main specification allocates
MaxVal == 1        \* element values are 0..MaxVal
MaxOpts == 2       \* options given to one call of New
MaxArgs == 2       \* length of a variadic / slice argument
MaxPushes == 9     \* PushBack calls of the push-only specification
MaxSwapCap == 2    \* largest backing array of the two-vector specification

\* T = int (NewInt): the zero value and the element size in bytes.
Zero == 0
ElemSize == 8

Val == 0..MaxVal
Args == UNION {[1..n -> Val] : n \in 0..MaxArgs}
Ints == (0 - 1)..(MaxCap + 1)
Vecs == {"A", "B"}
BufId == {1, 2}

Min(a, b) == IF a < b THEN a ELSE b

VARIABLES
    heap,       \* backing arrays: buffer id -> sequence of cap elements
    vec,        \* vector -> [buf, len, size, capacity]; data = heap[buf][:len]
    pc,         \* "new" (inside New, applying options), "ready", "crashed"
    nopts,      \* options applied so far by the running New
    last,       \* the last call: [op, err, val]
    npush,      \* PushBack calls counted by the push-only specification
    nrealloc    \* changes of Capacity() counted by the push-only specification

vars == <<heap, vec, pc, nopts, last, npush, nrealloc>>

----------------------------------------------------------------------------
\* Go runtime: allocation size classes and the growth of append.

SizeClasses ==
    {8, 16, 24, 32, 48, 64, 80, 96, 112, 128, 144, 160, 176, 192, 208, 224,
     240, 256, 288, 320, 352, 384, 416, 448, 480, 512}

RoundUpSize(bytes) ==
    IF bytes = 0 THEN 0
    ELSE IF \E c \in SizeClasses : c >= bytes
         THEN CHOOSE c \in SizeClasses :
                  c >= bytes /\ \A d \in SizeClasses : d >= bytes => c <= d
         ELSE bytes

\* the capacity append asks for; every capacity of the model is below the 256
\* elements up to which the runtime doubles
NextSliceCap(newLen, oldCap) ==
    IF newLen > 2 * oldCap THEN newLen ELSE 2 * oldCap

\* cap of the array append allocates when newLen elements do not fit oldCap
GrowSliceCap(oldCap, newLen) ==
    RoundUpSize(NextSliceCap(newLen, oldCap) * ElemSize) \div ElemSize

----------------------------------------------------------------------------
\* A vector as the operations see it:
\*   arr       the backing array of v.data, Len(arr) = cap(v.data)
\*   len       len(v.data)
\*   size, capacity   the bookkeeping fields
\*   fresh     v.data points at an array allocated by this call

Cap(v) == Len(v.arr)

Zeros(n) == [i \in 1..n |-> Zero]

\* the result of a call: the vector after it, the error kind ("ok" for nil,
\* "panic" for a run-time panic) and the returned values as a sequence
NoVal == <<>>

R(v, err, val) == [v |-> v, err |-> err, val |-> val]

\* v.data = make([]T, n, c), zero filled
MakeData(v, n, c) ==
    [v EXCEPT !.arr = Zeros(c), !.len = n, !.fresh = TRUE]

\* v.data = append(v.data, xs...)
append(v, xs) ==
    LET newLen == v.len + Len(xs)
    IN  IF Len(xs) = 0 THEN v
        ELSE IF newLen <= Cap(v)
        THEN [v EXCEPT !.arr = [i \in 1..Cap(v) |->
                                   IF i > v.len /\ i <= newLen
                                   THEN xs[i - v.len] ELSE v.arr[i]],
                       !.len = newLen]
        ELSE LET c == GrowSliceCap(Cap(v), newLen)
             IN  [v EXCEPT !.arr = SubSeq(v.arr, 1, v.len) \o xs
                                       \o Zeros(c - newLen),
                           !.len = newLen,
                           !.fresh = TRUE]

\* v.data[:n]
Reslice(v, n) == [v EXCEPT !.len = n]

\* v.data[i] = x   (0-based i)
SetAt(v, i, x) == [v EXCEPT !.arr[i + 1] = x]

\* copy(v.data[dst:dlen], v.data[src:hi]) within one array, memmove semantics
CopyWithin(v, dst, dlen, src, hi) ==
    LET n == Min(dlen - dst, hi - src)
    IN  [v EXCEPT !.arr = [i \in 1..Cap(v) |->
                              IF i > dst /\ i <= dst + n
                              THEN v.arr[src + (i - dst)] ELSE v.arr[i]]]

\* the value of Data(): v.data[:v.size]
Logical(v) == SubSeq(v.arr, 1, v.size)

----------------------------------------------------------------------------
\* Options of New.

WithCapacity(v, capacity) ==
    LET c == IF capacity < 0 THEN 0 ELSE capacity
    IN  [MakeData(v, c, c) EXCEPT !.capacity = c]

WithValues(v, values) ==
    LET a == append(v, values)
    IN  [a EXCEPT !.size = a.len,
                  !.capacity = IF v.capacity < a.len THEN a.len ELSE v.capacity]

WithSize(v, size, defaultValue) ==
    LET n == IF size < 0 THEN 0 ELSE size
    IN  [MakeData(v, n, n) EXCEPT !.arr = [i \in 1..n |-> defaultValue],
                                  !.size = n,
                                  !.capacity = n]

RECURSIVE AppendN(_, _, _)
AppendN(v, count, value) ==
    IF count <= 0 THEN v ELSE AppendN(append(v, <<value>>), count - 1, value)

WithFill(v, count, value) ==
    LET a == AppendN(v, count, value)
    IN  [a EXCEPT !.size = a.len,
                  !.capacity = IF v.capacity < a.len THEN a.len ELSE v.capacity]

FromSlice(v, slice) ==
    LET a == append(v, slice)
    IN  [a EXCEPT !.size = a.len, !.capacity = a.len]

----------------------------------------------------------------------------
\* Queries.

Size(v) == v.size

Capacity(v) == v.capacity

Empty(v) == v.size = 0

At(v, index) ==
    IF index < 0 \/ index >= v.size THEN R(v, "OutOfBounds", NoVal)
    ELSE IF index >= v.len THEN R(v, "panic", NoVal)
    ELSE R(v, "ok", <<v.arr[index + 1]>>)

Front(v) ==
    IF v.size = 0 THEN R(v, "EmptyContainer", NoVal)
    ELSE IF 0 >= v.len THEN R(v, "panic", NoVal)
    ELSE R(v, "ok", <<v.arr[1]>>)

Back(v) ==
    IF v.size = 0 THEN R(v, "EmptyContainer", NoVal)
    ELSE IF v.size - 1 >= v.len THEN R(v, "panic", NoVal)
    ELSE R(v, "ok", <<v.arr[v.size]>>)

Data(v) ==
    IF v.size > Cap(v) THEN R(v, "panic", NoVal)
    ELSE R(v, "ok", Logical(v))

String(v) == Data(v)

----------------------------------------------------------------------------
\* Growth.

\* growth by one slot instead of doubling
growCapacity_Linear(v) == Cap(v) + 1

growCapacity(v) == IF Cap(v) = 0 THEN 1 ELSE Cap(v) * 2

reserve(v, newCapacity) ==
    IF newCapacity < 0 \/ v.size > newCapacity THEN R(v, "panic", NoVal)
    ELSE LET n == Min(v.size, v.len)
         IN  R([v EXCEPT !.arr = [i \in 1..newCapacity |->
                                     IF i <= n THEN v.arr[i] ELSE Zero],
                         !.len = v.size,
                         !.capacity = newCapacity,
                         !.fresh = TRUE],
               "ok", NoVal)

----------------------------------------------------------------------------
\* Mutating operations.

PushBack(v, value) ==
    LET g == IF v.size = Cap(v) THEN reserve(v, growCapacity(v))
             ELSE R(v, "ok", NoVal)
        w == g.v
    IN  IF g.err # "ok" THEN g
        ELSE IF w.size + 1 > Cap(w) THEN R(w, "panic", NoVal)
        ELSE R([SetAt(Reslice(w, w.size + 1), w.size, value)
                   EXCEPT !.size = w.size + 1],
               "ok", NoVal)

PopBack(v) ==
    IF v.size = 0 THEN R(v, "EmptyContainer", NoVal)
    ELSE R([v EXCEPT !.size = v.size - 1], "ok", NoVal)

Insert(v, index, value) ==
    IF index < 0 \/ index > v.size THEN R(v, "OutOfBounds", NoVal)
    ELSE
    LET g == IF v.size = Cap(v) THEN reserve(v, growCapacity(v))
             ELSE R(v, "ok", NoVal)
        a == append(g.v, <<Zero>>)
    IN  IF g.err # "ok" THEN g
        \* v.data[index+1:] and v.data[index:v.size]
        ELSE IF index + 1 > a.len \/ a.size > Cap(a) THEN R(a, "panic", NoVal)
        ELSE LET c == CopyWithin(a, index + 1, a.len, index, a.size)
             IN  R([SetAt(c, index, value) EXCEPT !.size = a.size + 1],
                   "ok", NoVal)

Erase(v, index) ==
    IF index < 0 \/ index >= v.size THEN R(v, "OutOfBounds", NoVal)
    \* v.data[index:] and v.data[index+1:v.size]
    ELSE IF index > v.len \/ v.size > Cap(v) THEN R(v, "panic", NoVal)
    ELSE LET c == CopyWithin(v, index, v.len, index + 1, v.size)
         IN  R([Reslice(c, v.size - 1) EXCEPT !.size = v.size - 1],
               "ok", NoVal)

\* the storage is released instead of kept: v.data = nil
Clear_Release(v) ==
    R([v EXCEPT !.arr = <<>>, !.len = 0, !.size = 0, !.fresh = TRUE],
      "ok", NoVal)

Clear(v) == R([Reslice(v, 0) EXCEPT !.size = 0], "ok", NoVal)

\* the storage is reallocated to the requested capacity, smaller ones included
Reserve_Exact(v, newCapacity) ==
    IF newCapacity # Cap(v) THEN reserve(v, newCapacity)
    ELSE R(v, "ok", NoVal)

Reserve(v, newCapacity) ==
    IF newCapacity > Cap(v) THEN reserve(v, newCapacity)
    ELSE R(v, "ok", NoVal)

Resize(v, newSize, value) ==
    LET n == IF newSize < 0 THEN 0 ELSE newSize
        oldSize == v.size
        g == IF n > Cap(v) THEN reserve(v, n) ELSE R(v, "ok", NoVal)
        w == g.v
    IN  IF g.err # "ok" THEN g
        ELSE R([w EXCEPT !.arr = [i \in 1..Cap(w) |->
                                     IF i > oldSize /\ i <= n
                                     THEN value ELSE w.arr[i]],
                         !.len = n,
                         !.size = n],
               "ok", NoVal)

\* the values are appended to the old contents instead of replacing them
Assign_Append(v, values) ==
    LET a == append(v, values)
    IN  R([a EXCEPT !.size = a.len, !.capacity = Cap(a)], "ok", NoVal)

Assign(v, values) ==
    LET a == append(MakeData(v, 0, 0), values)
    IN  R([a EXCEPT !.size = Len(values), !.capacity = Cap(a)], "ok", NoVal)

----------------------------------------------------------------------------
\* The program: New applies its options to A, then the caller uses A.

Other(w) == IF w = "A" THEN "B" ELSE "A"

Load(w) ==
    [arr |-> heap[vec[w].buf], len |-> vec[w].len, size |-> vec[w].size,
     capacity |-> vec[w].capacity, fresh |-> FALSE]

\* the buffer a vector's data points at after a call: a freshly allocated
\* array takes the place of the old one unless the other vector still uses it
BufOf(w, f) ==
    IF f.fresh /\ vec[Other(w)].buf = vec[w].buf
    THEN CHOOSE b \in BufId : b # vec[w].buf
    ELSE vec[w].buf

Fields(b, f) ==
    [buf |-> b, len |-> f.len, size |-> f.size, capacity |-> f.capacity]

Store(w, f) ==
    /\ heap' = [heap EXCEPT ![BufOf(w, f)] = f.arr]
    /\ vec' = [vec EXCEPT ![w] = Fields(BufOf(w, f), f)]

Call(op, r) == [op |-> op, err |-> r.err, val |-> r.val]

Init ==
    /\ heap = [b \in BufId |-> <<>>]
    /\ vec = [w \in Vecs |->
                 [buf |-> IF w = "A" THEN 1 ELSE 2,
                  len |-> 0, size |-> 0, capacity |-> 0]]
    /\ pc = "new"
    /\ nopts = 0
    /\ last = [op |-> "none", err |-> "ok", val |-> NoVal]
    /\ npush = 0
    /\ nrealloc = 0

\* one option of New's loop
Option(name, f) ==
    /\ pc = "new"
    /\ nopts < MaxOpts
    /\ Cap(f) <= MaxCap
    /\ Store("A", f)
    /\ nopts' = nopts + 1
    /\ last' = [op |-> name, err |-> "ok", val |-> NoVal]
    /\ UNCHANGED <<pc, npush, nrealloc>>

OptWithCapacity ==
    \E n \in Ints : Option("WithCapacity", WithCapacity(Load("A"), n))

OptWithValues ==
    \E xs \in Args : Option("WithValues", WithValues(Load("A"), xs))

OptWithSize ==
    \E n \in Ints, x \in Val : Option("WithSize", WithSize(Load("A"), n, x))

OptWithFill ==
    \E n \in Ints, x \in Val : Option("WithFill", WithFill(Load("A"), n, x))

OptFromSlice ==
    \E xs \in Args : Option("FromSlice", FromSlice(Load("A"), xs))

New ==
    /\ pc = "new"
    /\ pc' = "ready"
    /\ nopts' = 0
    /\ last' = [op |-> "New", err |-> "ok", val |-> NoVal]
    /\ UNCHANGED <<heap, vec, npush, nrealloc>>

\* a call of a public method on A; a panic ends the program
Method(op, r) ==
    /\ pc = "ready"
    /\ Cap(r.v) <= MaxCap
    /\ Store("A", r.v)
    /\ pc' = IF r.err = "panic" THEN "crashed" ELSE "ready"
    /\ last' = Call(op, r)
    /\ UNCHANGED <<nopts, npush, nrealloc>>

DoAt(i) == Method("At", At(Load("A"), i))

CallAt == \E i \in Ints : DoAt(i)

CallFront == Method("Front", Front(Load("A")))

CallBack == Method("Back", Back(Load("A")))

CallData == Method("Data", Data(Load("A")))

CallString == Method("String", String(Load("A")))

DoPushBack(x) == Method("PushBack", PushBack(Load("A"), x))

CallPushBack == \E x \in Val : DoPushBack(x)

CallPopBack == Method("PopBack", PopBack(Load("A")))

DoInsert(i, x) == Method("Insert", Insert(Load("A"), i, x))

CallInsert == \E i \in Ints, x \in Val : DoInsert(i, x)

DoErase(i) == Method("Erase", Erase(Load("A"), i))

CallErase == \E i \in Ints : DoErase(i)

CallClear == Method("Clear", Clear(Load("A")))

DoReserve(n) == Method("Reserve", Reserve(Load("A"), n))

CallReserve == \E n \in Ints : DoReserve(n)

DoResize(n, x) == Method("Resize", Resize(Load("A"), n, x))

CallResize == \E n \in Ints, x \in Val : DoResize(n, x)

DoAssign(xs) == Method("Assign", Assign(Load("A"), xs))

CallAssign == \E xs \in Args : DoAssign(xs)

Next ==
    \/ OptWithCapacity \/ OptWithValues \/ OptWithSize \/ OptWithFill
    \/ OptFromSlice \/ New
    \/ CallAt \/ CallFront \/ CallBack \/ CallData \/ CallString
    \/ CallPushBack \/ CallPopBack \/ CallInsert \/ CallErase \/ CallClear
    \/ CallReserve \/ CallResize \/ CallAssign

Spec == Init /\ [][Next]_vars

\* New and the mutating methods alone: the queries change no field of the
\* vector, so the vector goes through the same states without them
NextMut ==
    \/ OptWithCapacity \/ OptWithValues \/ OptWithSize \/ OptWithFill
    \/ OptFromSlice \/ New
    \/ CallPushBack \/ CallPopBack \/ CallInsert \/ CallErase \/ CallClear
    \/ CallReserve \/ CallResize \/ CallAssign

SpecMut == Init /\ [][NextMut]_vars

----------------------------------------------------------------------------
\* New() without options followed by PushBack calls only, counting the calls
\* and the changes of Capacity().

CountPush ==
    \E x \in Val :
        LET r == PushBack(Load("A"), x)
        IN  /\ pc = "ready"
            /\ npush < MaxPushes
            /\ Store("A", r.v)
            /\ pc' = IF r.err = "panic" THEN "crashed" ELSE "ready"
            /\ last' = Call("PushBack", r)
            /\ npush' = npush + 1
            /\ nrealloc' = IF Capacity(r.v) # Capacity(Load("A"))
                           THEN nrealloc + 1 ELSE nrealloc
            /\ UNCHANGED nopts

NextPush == New \/ CountPush

SpecPush == Init /\ [][NextPush]_vars

----------------------------------------------------------------------------
\* Properties.

A == Load("A")

Ready == pc = "ready"

\* the fields and the array of A after the step
APost ==
    [arr |-> heap'[vec'["A"].buf], len |-> vec'["A"].len,
     size |-> vec'["A"].size, capacity |-> vec'["A"].capacity, fresh |-> FALSE]

Same == UNCHANGED <<heap, vec>>

\* elements [0, n) of v and w agree
SamePrefix(v, w, n) == \A k \in 1..n : v.arr[k] = w.arr[k]

\* C1: after New with any options and any public operations,
\* 0 <= Size() <= Capacity().
C1_SizeWithinCapacity ==
    Ready => 0 <= Size(A) /\ Size(A) <= Capacity(A)

\* C2: every public operation returns normally; a failure is a returned error
\* value, never a panic.
C2_NoPanic == last.err # "panic"

\* C3: At(i) returns element i and no error when 0 <= i < Size(), an
\* OutOfBounds error for every other i, and changes nothing.
C3_AtBounds ==
    [][\A i \in Ints :
          DoAt(i) =>
              /\ IF 0 <= i /\ i < Size(A)
                 THEN last'.err = "ok" /\ last'.val = <<A.arr[i + 1]>>
                 ELSE last'.err = "OutOfBounds"
              /\ Same]_vars

\* C4: on an empty vector Front, Back and PopBack return EmptyContainer and
\* change nothing; otherwise Front returns element 0, Back returns element
\* Size()-1 and PopBack removes exactly the last element.
C4_FrontBackPop ==
    [][/\ CallFront =>
              /\ IF Size(A) = 0
                 THEN last'.err = "EmptyContainer"
                 ELSE last'.err = "ok" /\ last'.val = <<A.arr[1]>>
              /\ Same
       /\ CallBack =>
              /\ IF Size(A) = 0
                 THEN last'.err = "EmptyContainer"
                 ELSE last'.err = "ok" /\ last'.val = <<A.arr[Size(A)]>>
              /\ Same
       /\ CallPopBack =>
              IF Size(A) = 0
              THEN last'.err = "EmptyContainer" /\ Same
              ELSE /\ last'.err = "ok"
                   /\ Size(APost) = Size(A) - 1
                   /\ SamePrefix(A, APost, Size(A) - 1)]_vars

\* C5: PushBack(x) puts x at index s = Size(), keeps elements [0, s) and makes
\* Size() s+1; Capacity() c stays when s < c and becomes 1 (c = 0) or 2*c
\* when s = c.
C5_PushBack ==
    [][\A x \in Val :
          DoPushBack(x) =>
              /\ last'.err = "ok"
              /\ Size(APost) = Size(A) + 1
              /\ APost.arr[Size(A) + 1] = x
              /\ SamePrefix(A, APost, Size(A))
              /\ Size(A) < Capacity(A) => Capacity(APost) = Capacity(A)
              /\ Size(A) = Capacity(A) =>
                     Capacity(APost) =
                         IF Capacity(A) = 0 THEN 1 ELSE 2 * Capacity(A)]_vars

RECURSIVE PowerOfTwoFrom(_, _)
PowerOfTwoFrom(p, k) == IF p >= k THEN p ELSE PowerOfTwoFrom(2 * p, k)

\* 0 for k = 0, otherwise the smallest power of two >= k
GrownCapacity(k) == IF k = 0 THEN 0 ELSE PowerOfTwoFrom(1, k)

RECURSIVE FloorLog2(_)
FloorLog2(n) == IF n <= 1 THEN 0 ELSE 1 + FloorLog2(n \div 2)

\* C6: from New() without options, after k PushBack calls Capacity() is 0
\* (k = 0) or the smallest power of two >= k; Capacity() changes only on a
\* push that finds size = capacity, at most floor(log2(k)) + 2 times.
C6_Growth ==
    /\ [](/\ pc # "crashed"
           /\ Ready => /\ Size(A) = npush
                       /\ Capacity(A) = GrownCapacity(npush)
                       /\ npush = 0 => nrealloc = 0
                       /\ npush > 0 => nrealloc <= FloorLog2(npush) + 2)
    /\ [][Capacity(APost) # Capacity(A) =>
              /\ last'.op = "PushBack"
              /\ Size(A) = Capacity(A)]_vars

\* nine pushes have grown the capacity 0, 1, 2, 4, 8, 16 in five steps
C6_Witness ==
    Ready /\ npush = 9 /\ Capacity(A) = 16 /\ nrealloc = 5 /\ Size(A) = 9

\* sequence s with x put in front of its element i (0-based)
InsertedAt(s, i, x) ==
    SubSeq(s, 1, i) \o <<x>> \o SubSeq(s, i + 1, Len(s))

\* sequence s without its element i (0-based)
ErasedAt(s, i) == SubSeq(s, 1, i) \o SubSeq(s, i + 2, Len(s))

\* C7: Insert(i, x) with 0 <= i <= s returns no error, makes Size() s+1 and
\* the sequence S[0..i) ++ [x] ++ S[i..s); any other i returns OutOfBounds
\* and changes nothing.
C7_Insert ==
    [][\A i \in Ints, x \in Val :
          DoInsert(i, x) =>
              IF 0 <= i /\ i <= Size(A)
              THEN /\ last'.err = "ok"
                   /\ Size(APost) = Size(A) + 1
                   /\ Data(A).err = "ok" =>
                          /\ Data(APost).err = "ok"
                          /\ Data(APost).val = InsertedAt(Data(A).val, i, x)
              ELSE last'.err = "OutOfBounds" /\ Same]_vars

\* C8: Erase(i) with 0 <= i < s returns no error, makes Size() s-1, keeps
\* Capacity() and leaves S[0..i) ++ S[i+1..s); any other i returns
\* OutOfBounds and changes nothing.
C8_Erase ==
    [][\A i \in Ints :
          DoErase(i) =>
              IF 0 <= i /\ i < Size(A)
              THEN /\ last'.err = "ok"
                   /\ Size(APost) = Size(A) - 1
                   /\ Capacity(APost) = Capacity(A)
                   /\ Data(A).err = "ok" =>
                          /\ Data(APost).err = "ok"
                          /\ Data(APost).val = ErasedAt(Data(A).val, i)
              ELSE last'.err = "OutOfBounds" /\ Same]_vars

\* C9: for 0 <= i <= Size(), Insert(i, x) followed by Erase(i) restores the
\* sequence and Size().
C9_InsertErase ==
    Ready =>
        \A i \in 0..Size(A), x \in Val :
            LET ins == Insert(A, i, x)
                era == Erase(ins.v, i)
            IN  /\ ins.err = "ok"
                /\ era.err = "ok"
                /\ Size(era.v) = Size(A)
                /\ Data(A).err = "ok" =>
                       Data(era.v).err = "ok" /\ Data(era.v).val = Data(A).val

\* C10: PushBack(x) followed by PopBack() returns no error and restores
\* Size() and the elements [0, Size()).
C10_PushPop ==
    Ready =>
        \A x \in Val :
            LET psh == PushBack(A, x)
                pop == PopBack(psh.v)
            IN  /\ psh.err = "ok"
                /\ pop.err = "ok"
                /\ Size(pop.v) = Size(A)
                /\ Data(A).err = "ok" =>
                       Data(pop.v).err = "ok" /\ Data(pop.v).val = Data(A).val

\* the logical sequence of A is the same before and after the step
SameSequence ==
    Data(A).err = "ok" => Data(APost).err = "ok" /\ Data(APost).val = Data(A).val

\* C11: Reserve(n) with n > Capacity() makes Capacity() exactly n, with
\* n <= Capacity() it changes nothing; Size() and the sequence stay and
\* Capacity() never decreases.
C11_Reserve ==
    [][\A n \in Ints :
          DoReserve(n) =>
              /\ last'.err = "ok"
              /\ n > Capacity(A) => Capacity(APost) = n
              /\ n <= Capacity(A) => Same
              /\ Size(APost) = Size(A)
              /\ SameSequence
              /\ Capacity(APost) >= Capacity(A)]_vars

\* C12: Resize(n, f) with m = max(n, 0) makes Size() m and Capacity() >= m;
\* growing appends m-s copies of f to S, shrinking leaves S[0..m); Capacity()
\* becomes exactly m when m exceeded it and stays otherwise.
C12_Resize ==
    [][\A n \in Ints, f \in Val :
          DoResize(n, f) =>
              LET m == IF n < 0 THEN 0 ELSE n
                  s == Size(A)
              IN  /\ last'.err = "ok"
                  /\ Size(APost) = m
                  /\ Capacity(APost) >= m
                  /\ Capacity(APost) =
                         IF m > Capacity(A) THEN m ELSE Capacity(A)
                  /\ Data(A).err = "ok" =>
                         /\ Data(APost).err = "ok"
                         /\ Data(APost).val =
                                IF m > s
                                THEN Data(A).val \o [k \in 1..(m - s) |-> f]
                                ELSE SubSeq(Data(A).val, 1, m)]_vars

\* k calls of PushBack(x), stopping at a call that does not return normally
RECURSIVE PushN(_, _, _)
PushN(v, k, x) ==
    IF k = 0 THEN R(v, "ok", NoVal)
    ELSE LET p == PushBack(v, x)
         IN  IF p.err # "ok" THEN p ELSE PushN(p.v, k - 1, x)

\* C13: Clear() makes Size() 0 and Empty() true and keeps Capacity(); the
\* storage is reused: up to Capacity() PushBack calls after it leave
\* Capacity() as it was.
C13_Clear ==
    Ready =>
        LET c == Clear(A)
        IN  /\ c.err = "ok"
            /\ Size(c.v) = 0
            /\ Empty(c.v)
            /\ Capacity(c.v) = Capacity(A)
            /\ \A k \in 0..Capacity(A), x \in Val :
                   LET p == PushN(c.v, k, x)
                   IN  /\ p.err = "ok"
                       /\ Size(p.v) = k
                       /\ Capacity(p.v) = Capacity(A)

\* Clear has emptied a vector that keeps MaxCap slots and stale elements
C13_Witness ==
    /\ Ready
    /\ last.op = "Clear"
    /\ Size(A) = 0
    /\ Capacity(A) = MaxCap
    /\ Cap(A) = MaxCap
    /\ \E k \in 1..Cap(A) : A.arr[k] # Zero

----------------------------------------------------------------------------
\* Two vectors: New builds A and B, then the caller swaps them and changes
\* the elements of either of them (PushBack, Insert, Erase, Resize, Assign).

SwapInts == (0 - 1)..(MaxSwapCap + 1)

\* the vector w as Swap sees it: the slice header (array, len) and the fields
Header(w) == vec[w]

\* the receiver is left with the other's data as well: both share one array
Swap_Shared(v, other) ==
    [v |-> other, other |-> [other EXCEPT !.size = v.size,
                                          !.capacity = v.capacity]]

Swap(v, other) == [v |-> other, other |-> v]

OptionOn(w, name, f) ==
    /\ pc = "new"
    /\ nopts < MaxOpts
    /\ Cap(f) <= MaxSwapCap
    /\ Store(w, f)
    /\ nopts' = nopts + 1
    /\ last' = [op |-> name, err |-> "ok", val |-> NoVal]
    /\ UNCHANGED <<pc, npush, nrealloc>>

BuildWithCapacity ==
    \E w \in Vecs, n \in SwapInts :
        OptionOn(w, "WithCapacity", WithCapacity(Load(w), n))

BuildWithValues ==
    \E w \in Vecs, xs \in Args :
        OptionOn(w, "WithValues", WithValues(Load(w), xs))

BuildWithSize ==
    \E w \in Vecs, n \in SwapInts, x \in Val :
        OptionOn(w, "WithSize", WithSize(Load(w), n, x))

BuildWithFill ==
    \E w \in Vecs, n \in SwapInts, x \in Val :
        OptionOn(w, "WithFill", WithFill(Load(w), n, x))

BuildFromSlice ==
    \E w \in Vecs, xs \in Args :
        OptionOn(w, "FromSlice", FromSlice(Load(w), xs))

MethodOn(w, op, r) ==
    /\ pc = "ready"
    /\ Cap(r.v) <= MaxSwapCap
    /\ Store(w, r.v)
    /\ pc' = IF r.err = "panic" THEN "crashed" ELSE "ready"
    /\ last' = Call(op, r)
    /\ UNCHANGED <<nopts, npush, nrealloc>>

OnPushBack ==
    \E w \in Vecs, x \in Val : MethodOn(w, "PushBack", PushBack(Load(w), x))

OnInsert ==
    \E w \in Vecs, i \in SwapInts, x \in Val :
        MethodOn(w, "Insert", Insert(Load(w), i, x))

OnErase ==
    \E w \in Vecs, i \in SwapInts : MethodOn(w, "Erase", Erase(Load(w), i))

OnResize ==
    \E w \in Vecs, n \in SwapInts, x \in Val :
        MethodOn(w, "Resize", Resize(Load(w), n, x))

OnAssign ==
    \E w \in Vecs, xs \in Args : MethodOn(w, "Assign", Assign(Load(w), xs))

\* w.Swap(Other(w)): the slice headers and the fields change places, no
\* array is touched
DoSwap(w) ==
    LET r == Swap(Header(w), Header(Other(w)))
    IN  /\ pc = "ready"
        /\ vec' = [vec EXCEPT ![w] = r.v, ![Other(w)] = r.other]
        /\ last' = [op |-> "Swap", err |-> "ok", val |-> NoVal]
        /\ UNCHANGED <<heap, pc, nopts, npush, nrealloc>>

OnSwap == \E w \in Vecs : DoSwap(w)

NextSwap ==
    \/ BuildWithCapacity \/ BuildWithValues \/ BuildWithSize \/ BuildWithFill
    \/ BuildFromSlice \/ New
    \/ OnPushBack \/ OnInsert \/ OnErase \/ OnResize \/ OnAssign \/ OnSwap

SpecSwap == Init /\ [][NextSwap]_vars

\* what a caller can see of vector w: Data() (or its panic), Size(), Capacity()
View(w) ==
    [data |-> [err |-> Data(Load(w)).err, val |-> Data(Load(w)).val],
     size |-> Size(Load(w)), capacity |-> Capacity(Load(w))]

ViewPost(w) ==
    LET v == [arr |-> heap'[vec'[w].buf], len |-> vec'[w].len,
              size |-> vec'[w].size, capacity |-> vec'[w].capacity,
              fresh |-> FALSE]
    IN  [data |-> [err |-> Data(v).err, val |-> Data(v).val],
         size |-> Size(v), capacity |-> Capacity(v)]

\* C14: A.Swap(B) leaves A with B's prior sequence, size and capacity and B
\* with A's; the two vectors never share a buffer, so a call on one of them
\* never changes what the other holds; swapping twice restores both.
C14_Swap ==
    /\ [](/\ vec["A"].buf # vec["B"].buf
          /\ LET once == Swap(Header("A"), Header("B"))
                 twice == Swap(once.v, once.other)
             IN  twice.v = Header("A") /\ twice.other = Header("B"))
    /\ [][/\ OnSwap => /\ ViewPost("A") = View("B")
                       /\ ViewPost("B") = View("A")
          /\ ~OnSwap => \A w \in Vecs :
                            ViewPost(w) # View(w) =>
                                ViewPost(Other(w)) = View(Other(w))]_vars

\* A = [0, 1] and B = [1] have been swapped: A holds [1] in B's old array
C14_Witness ==
    /\ Ready
    /\ last.op = "Swap"
    /\ View("A").data.val = <<1>>
    /\ View("B").data.val = <<0, 1>>
    /\ vec["A"].buf = 2
    /\ vec["B"].buf = 1

----------------------------------------------------------------------------
\* C15: Assign(v1..vk) replaces the contents: afterwards Size() = k,
\* At(i) = v(i+1) for 0 <= i < k, Capacity() >= k and Data() is exactly
\* v1..vk; Assign() leaves an empty vector.
C15_Assign ==
    Ready =>
        \A xs \in Args :
            LET r == Assign(A, xs)
                k == Len(xs)
            IN  /\ r.err = "ok"
                /\ Size(r.v) = k
                /\ Capacity(r.v) >= k
                /\ \A i \in 0..(k - 1) :
                       At(r.v, i) = R(r.v, "ok", <<xs[i + 1]>>)
                /\ At(r.v, k).err = "OutOfBounds"
                /\ Data(r.v).err = "ok"
                /\ Data(r.v).val = xs
                /\ k = 0 => Empty(r.v)

\* Assign(0, 1) has replaced the contents of a vector
C15_Witness ==
    /\ Ready
    /\ last.op = "Assign"
    /\ Size(A) = 2
    /\ Data(A).val = <<0, 1>>

----------------------------------------------------------------------------
\* C16: right after New applies WithValues(v1..vk) or FromSlice(seq),
\* whatever options came before it, the logical sequence is exactly the
\* given values and Size() = Capacity() = k.
C16_ValuesReplace ==
    [][\A xs \in Args :
          \/ Option("WithValues", WithValues(Load("A"), xs))
          \/ Option("FromSlice", FromSlice(Load("A"), xs))
          => /\ Data(APost).err = "ok"
             /\ Data(APost).val = xs
             /\ Size(APost) = Len(xs)
             /\ Capacity(APost) = Len(xs)]_vars

----------------------------------------------------------------------------
\* C17: WithFill(n, value) applied to a vector holding S (length s) leaves
\* S followed by max(n, 0) copies of value, with
\* Size() = Capacity() = s + max(n, 0).
C17_FillAppends ==
    [][\A n \in Ints, x \in Val :
          Option("WithFill", WithFill(Load("A"), n, x)) =>
              LET m == IF n < 0 THEN 0 ELSE n
              IN  /\ Size(APost) = Size(A) + m
                  /\ Capacity(APost) = Size(A) + m
                  /\ Data(A).err = "ok" =>
                         /\ Data(APost).err = "ok"
                         /\ Data(APost).val = Data(A).val \o [k \in 1..m |-> x]]_vars

----------------------------------------------------------------------------
\* C18: Capacity() never shrinks under PushBack, PopBack, Insert, Erase,
\* Clear, Reserve and Resize, whatever their arguments and whether or not
\* the call returns normally.
C18_NoShrink ==
    [][\/ CallPushBack \/ CallPopBack \/ CallInsert \/ CallErase
       \/ CallClear \/ CallReserve \/ CallResize
       => Capacity(APost) >= Capacity(A)]_vars

\* a vector grown to MaxCap slots has been emptied by PopBack and keeps them
C18_Witness ==
    /\ Ready
    /\ last.op = "PopBack"
    /\ last.err = "ok"
    /\ Size(A) = 0
    /\ Capacity(A) = MaxCap

----------------------------------------------------------------------------
\* C19: WithCapacity(n), wherever it stands in New's option list, sets
\* Capacity() to max(n, 0), leaves Size() unchanged and leaves the elements
\* [0, Size()) as At and Data read them; alone it gives an empty vector.
C19_WithCapacityKeeps ==
    [][\A n \in Ints :
          Option("WithCapacity", WithCapacity(Load("A"), n)) =>
              /\ Capacity(APost) = IF n < 0 THEN 0 ELSE n
              /\ Size(APost) = Size(A)
              /\ Data(APost) = [Data(A) EXCEPT !.v = APost]
              /\ \A i \in 0..(Size(A) - 1) :
                     At(APost, i) = [At(A, i) EXCEPT !.v = APost]
              /\ Size(A) = 0 => Empty(APost)]_vars

\* C20: the field Capacity() reports equals cap(v.data), the capacity
\* PushBack, Insert, Reserve and Resize test, in every state New returns and
\* every state after a method call.
C20_CapacityIsCap == Ready => Capacity(A) = Cap(A)

====
